---- MODULE Spec2Model ----
(***************************************************************************)
(* The metrics pipeline of the per-state damage prediction application:    *)
(* transformData and its helpers (calculateDamageRate,                     *)
(* calculateNationalAverages, calculateExpectedDamageRate) and the query   *)
(* helper getAvailableYears; parseCSV and the row parsers; the load of the  *)
(* two files by loadAndTransformData and the load state of App.            *)
(*                                                                         *)
(* Numbers.  A JavaScript number is modelled as an exact rational          *)
(* <<n, d>> in lowest terms with d > 0; NaN is <<0, 0>>, +/-Infinity are   *)
(* <<1, 0>> and <<-1, 0>>.  null is the empty tuple.  IEEE rounding is not *)
(* modelled: the arithmetic is exact.                                      *)
(* Strings are sequences of one-character strings.                         *)
(* A Map or Set is the sequence of its entries in insertion order.         *)
(***************************************************************************)
EXTENDS Integers, Sequences, FiniteSets, TLC

VARIABLES
    transmissions,    \* input: TransmissionRecord[]
    damages,          \* input: DamageRecord[]
    pc,               \* position in transformData / the caller
    transmissionMap,  \* Map<string, TransmissionRecord>
    damageMap,        \* Map<string, DamageRecord>
    allKeys,          \* Set<string>, in insertion order
    nationalAvgRate,  \* Map<number, number>
    heap,             \* the StateYearMetrics objects, by creation order
    metricsMap,       \* Map<string, StateYearMetrics[]>: references into heap
    allMetrics,       \* StateYearMetrics[]: references into heap
    result,           \* the array transformData returned
    availableYears,   \* getAvailableYears(result)
    previous,         \* the arrays earlier invocations of transformData returned
    rateCall,         \* a call of calculateDamageRate: arguments and result
    csv,              \* a call of parseCSV: text, position and records
    app               \* loadAndTransformData and the App component

vars == <<transmissions, damages, pc, transmissionMap, damageMap, allKeys,
          nationalAvgRate, heap, metricsMap, allMetrics, result,
          availableYears, previous, rateCall, csv, app>>

\* what a run of transformData leaves alone
others == <<previous, rateCall, csv, app>>

\* a part of the program that is not running
Idle == [pc |-> "idle"]

----------------------------------------------------------------------------
(* Numbers *)

Null == <<>>
NaN == <<0, 0>>

Abs(i) == IF i < 0 THEN -i ELSE i
Sgn(i) == IF i < 0 THEN -1 ELSE IF i > 0 THEN 1 ELSE 0

RECURSIVE GCD(_, _)
GCD(a, b) == IF b = 0 THEN a ELSE GCD(b, a % b)

\* n / d in lowest terms, d # 0
Norm(n, d) ==
    LET s == IF d < 0 THEN -1 ELSE 1
        g == GCD(Abs(n), Abs(d))
    IN  <<(s * n) \div g, (s * d) \div g>>

Num(i) == <<i, 1>>
IsNaN(a) == a = NaN
IsFinite(a) == a[2] # 0

NumNeg(a) == <<-a[1], a[2]>>

NumAdd(a, b) ==
    IF IsNaN(a) \/ IsNaN(b) THEN NaN
    ELSE IF IsFinite(a) /\ IsFinite(b)
         THEN Norm(a[1] * b[2] + b[1] * a[2], a[2] * b[2])
    ELSE IF IsFinite(a) THEN b
    ELSE IF IsFinite(b) THEN a
    ELSE IF a = b THEN a ELSE NaN

NumSub(a, b) == NumAdd(a, NumNeg(b))

NumMul(a, b) ==
    IF IsNaN(a) \/ IsNaN(b) THEN NaN
    ELSE IF IsFinite(a) /\ IsFinite(b) THEN Norm(a[1] * b[1], a[2] * b[2])
    ELSE IF a[1] = 0 \/ b[1] = 0 THEN NaN
    ELSE <<Sgn(a[1]) * Sgn(b[1]), 0>>

NumDiv(a, b) ==
    IF IsNaN(a) \/ IsNaN(b) THEN NaN
    ELSE IF ~IsFinite(b) THEN (IF IsFinite(a) THEN Num(0) ELSE NaN)
    ELSE IF b[1] = 0
         THEN (IF a[1] = 0 THEN NaN ELSE <<Sgn(a[1]), 0>>)
    ELSE IF ~IsFinite(a) THEN <<Sgn(a[1]) * Sgn(b[1]), 0>>
    ELSE Norm(a[1] * b[2], a[2] * b[1])

\* a < b; false when either is NaN
NumLt(a, b) ==
    /\ ~IsNaN(a)
    /\ ~IsNaN(b)
    /\ IF ~IsFinite(a) /\ ~IsFinite(b) THEN a[1] < b[1]
       ELSE a[1] * b[2] < b[1] * a[2]

NumLe(a, b) == ~IsNaN(a) /\ ~IsNaN(b) /\ (a = b \/ NumLt(a, b))
NumGt(a, b) == NumLt(b, a)
NumGe(a, b) == NumLe(b, a)
NumAbs(a) == <<Abs(a[1]), a[2]>>

----------------------------------------------------------------------------
(* Strings *)

\* the characters of the model, in UTF-16 code unit order
CharOrder ==
    <<"-", "0", "1", "2", "3", "4", "5", "6", "7", "8", "9",
      "A", "B", "C", "D", "E", "F", "G", "H", "I", "J", "K", "L", "M",
      "N", "O", "P", "Q", "R", "S", "T", "U", "V", "W", "X", "Y", "Z", "a">>

CodeUnit(c) == CHOOSE i \in 1..Len(CharOrder) : CharOrder[i] = c

IsDigit(c) == c \in {"0", "1", "2", "3", "4", "5", "6", "7", "8", "9"}
DigitVal(c) == CodeUnit(c) - 2
DigitChar(d) == CharOrder[d + 2]

RECURSIVE NatToStr(_)
NatToStr(n) ==
    IF n < 10 THEN <<DigitChar(n)>>
    ELSE NatToStr(n \div 10) \o <<DigitChar(n % 10)>>

\* String(a) of an integer-valued number or NaN
NumToStr(a) ==
    IF IsNaN(a) THEN <<"N", "a", "N">>
    ELSE IF a[1] < 0 THEN <<"-">> \o NatToStr(-a[1])
    ELSE NatToStr(a[1])

\* s.split(c): the pieces of s between the occurrences of c
RECURSIVE SplitFrom(_, _, _, _, _)
SplitFrom(s, c, i, cur, acc) ==
    IF i > Len(s) THEN Append(acc, cur)
    ELSE IF s[i] = c THEN SplitFrom(s, c, i + 1, <<>>, Append(acc, cur))
    ELSE SplitFrom(s, c, i + 1, Append(cur, s[i]), acc)

Split(s, c) == SplitFrom(s, c, 1, <<>>, <<>>)

\* the value of the longest prefix of digits of s from position i on
RECURSIVE DigitsFrom(_, _, _)
DigitsFrom(s, i, acc) ==
    IF i > Len(s) \/ ~IsDigit(s[i]) THEN acc
    ELSE DigitsFrom(s, i + 1, 10 * acc + DigitVal(s[i]))

\* white space as String.prototype.trim and parseInt see it
IsSpace(c) == c \in {" ", "\t", "\n", "\r"}

RECURSIVE TrimStart(_)
TrimStart(s) ==
    IF Len(s) > 0 /\ IsSpace(s[1]) THEN TrimStart(Tail(s)) ELSE s

RECURSIVE TrimEnd(_)
TrimEnd(s) ==
    IF Len(s) > 0 /\ IsSpace(s[Len(s)]) THEN TrimEnd(SubSeq(s, 1, Len(s) - 1))
    ELSE s

\* s.trim()
Trim(s) == TrimEnd(TrimStart(s))

\* s.toUpperCase(), for the letters of the model
LowerCase == <<"a", "c", "l">>
UpperCase == <<"A", "C", "L">>
ToUpperCase(s) ==
    [i \in 1..Len(s) |->
        IF \E j \in 1..Len(LowerCase) : LowerCase[j] = s[i]
        THEN UpperCase[CHOOSE j \in 1..Len(LowerCase) : LowerCase[j] = s[i]]
        ELSE s[i]]

\* parseInt(s, 10): leading white space, optional sign, then digits; NaN
\* when there is no digit
ParseInt(str) ==
    LET s == TrimStart(str)
        neg == Len(s) > 0 /\ s[1] = "-"
        start == IF neg THEN 2 ELSE 1
    IN  IF start > Len(s) \/ ~IsDigit(s[start]) THEN NaN
        ELSE Num((IF neg THEN -1 ELSE 1) * DigitsFrom(s, start, 0))

\* a < b by UTF-16 code units (the order of Array.prototype.sort by default)
RECURSIVE StrLtFrom(_, _, _)
StrLtFrom(a, b, i) ==
    IF i > Len(b) THEN FALSE
    ELSE IF i > Len(a) THEN TRUE
    ELSE IF a[i] = b[i] THEN StrLtFrom(a, b, i + 1)
    ELSE CodeUnit(a[i]) < CodeUnit(b[i])

StrLt(a, b) == StrLtFrom(a, b, 1)

\* a.localeCompare(b) for strings of upper-case letters, digits and '-':
\* the collation order of these characters agrees with CharOrder
LocaleCompare(a, b) ==
    IF a = b THEN 0 ELSE IF StrLt(a, b) THEN -1 ELSE 1

----------------------------------------------------------------------------
(* Map and Set, Array.prototype.sort *)

MapHas(m, k) == \E i \in 1..Len(m) : m[i].k = k
MapIndex(m, k) == CHOOSE i \in 1..Len(m) : m[i].k = k
\* m.get(k) || dflt   (or ?? dflt)
MapGetOr(m, k, dflt) == IF MapHas(m, k) THEN m[MapIndex(m, k)].v ELSE dflt
MapSet(m, k, v) ==
    IF MapHas(m, k)
    THEN [i \in 1..Len(m) |-> IF m[i].k = k THEN [k |-> k, v |-> v] ELSE m[i]]
    ELSE Append(m, [k |-> k, v |-> v])

SetAdd(s, x) == IF \E i \in 1..Len(s) : s[i] = x THEN s ELSE Append(s, x)

\* Array.prototype.sort(cmp): stable; x is inserted into the sorted prefix
\* after every element that is not greater than it (cmp(x, e) < 0 puts x
\* before e).  cmp is the comparator as a function on pairs of elements.
RECURSIVE InsertAt(_, _, _, _)
InsertAt(acc, x, j, cmp) ==
    IF j >= 1 /\ cmp[x, acc[j]] < 0 THEN InsertAt(acc, x, j - 1, cmp)
    ELSE SubSeq(acc, 1, j) \o <<x>> \o SubSeq(acc, j + 1, Len(acc))

RECURSIVE SortFrom(_, _, _, _)
SortFrom(s, i, acc, cmp) ==
    IF i > Len(s) THEN acc
    ELSE SortFrom(s, i + 1, InsertAt(acc, s[i], Len(acc), cmp), cmp)

Sort(s, cmp) == SortFrom(s, 1, <<>>, cmp)

\* the elements of an array
Elems(s) == {s[i] : i \in 1..Len(s)}

\* the sign of a comparator's result a - b; NaN counts as 0
CmpNum(a, b) ==
    LET diff == NumSub(a, b)
    IN  IF IsNaN(diff) THEN 0 ELSE Sgn(diff[1])

----------------------------------------------------------------------------
(* transform.ts *)

\* Set to 0 to show all residuals regardless of magnitude
MEANINGFUL_RESIDUAL_THRESHOLD == Num(0)

RateScale == 10000
LookbackYears == 3

\* a field of a row; row[k] is undefined past the end and parseInt of
\* undefined is NaN
ParseIntField(row, k) == IF k <= Len(row) THEN ParseInt(row[k]) ELSE NaN

parseTransmissionRow(row) ==
    [state |-> ToUpperCase(Trim(row[1])),
     year |-> ParseIntField(row, 2),
     transmissions |-> ParseIntField(row, 3)]

parseDamageRow(row) ==
    [state |-> ToUpperCase(Trim(row[1])),
     year |-> ParseIntField(row, 2),
     total_damages |-> ParseIntField(row, 3)]

\* the parser argument of parseCSV, by name
ParseRow(parser, row) ==
    IF parser = "parseTransmissionRow" THEN parseTransmissionRow(row)
    ELSE parseDamageRow(row)

\* csvText.trim().split('\n')
CsvLines(csvText) == Split(Trim(csvText), "\n")

\* lines[0].split(',')
CsvHeaders(lines) == Split(lines[1], ",")

\* a variant of RowMatches: a row with at least the header's fields
RowMatchesAtLeast(values, headers) == Len(values) >= Len(headers)

\* values.length === headers.length
RowMatches(values, headers) == Len(values) = Len(headers)

\* the body of the loop for lines[i] (i counted from 0 as in the code)
ParseLine(lines, headers, i, records, parser) ==
    LET values == Split(lines[i + 1], ",")
    IN  IF RowMatches(values, headers)
        THEN Append(records, ParseRow(parser, values))
        ELSE records

\* for (let i = 1; i < lines.length; i++) ...
RECURSIVE ParseLinesFrom(_, _, _, _, _)
ParseLinesFrom(lines, headers, i, records, parser) ==
    IF i >= Len(lines) THEN records
    ELSE ParseLinesFrom(lines, headers, i + 1,
                        ParseLine(lines, headers, i, records, parser), parser)

parseCSV(csvText, parser) ==
    LET lines == CsvLines(csvText)
    IN  ParseLinesFrom(lines, CsvHeaders(lines), 1, <<>>, parser)

\* `${state}-${year}`
KeyOf(state, year) == state \o <<"-">> \o NumToStr(year)

\* a variant of calculateDamageRate: null only for transmissions < 0
calculateDamageRateNegative(dmg, trans) ==
    IF NumLt(trans, Num(0)) THEN Null
    ELSE NumMul(NumDiv(dmg, trans), Num(RateScale))

calculateDamageRate(dmg, trans) ==
    IF NumLe(trans, Num(0)) THEN Null
    ELSE NumMul(NumDiv(dmg, trans), Num(RateScale))

\* for (const r of recs) map.set(`${r.state}-${r.year}`, r)
RECURSIVE BuildRecordMap(_, _, _)
BuildRecordMap(recs, i, m) ==
    IF i > Len(recs) THEN m
    ELSE BuildRecordMap(recs, i + 1,
                        MapSet(m, KeyOf(recs[i].state, recs[i].year), recs[i]))

\* recs.forEach(r => allKeys.add(`${r.state}-${r.year}`))
RECURSIVE AddKeys(_, _, _)
AddKeys(recs, i, keys) ==
    IF i > Len(recs) THEN keys
    ELSE AddKeys(recs, i + 1, SetAdd(keys, KeyOf(recs[i].state, recs[i].year)))

NoTotals == [damages |-> Num(0), transmissions |-> Num(0)]

RECURSIVE SumTransmissions(_, _, _)
SumTransmissions(ts, i, yearTotals) ==
    IF i > Len(ts) THEN yearTotals
    ELSE LET existing == MapGetOr(yearTotals, ts[i].year, NoTotals)
             updated == [existing EXCEPT !.transmissions =
                             NumAdd(@, ts[i].transmissions)]
         IN  SumTransmissions(ts, i + 1, MapSet(yearTotals, ts[i].year, updated))

RECURSIVE SumDamages(_, _, _)
SumDamages(ds, i, yearTotals) ==
    IF i > Len(ds) THEN yearTotals
    ELSE LET existing == MapGetOr(yearTotals, ds[i].year, NoTotals)
             updated == [existing EXCEPT !.damages =
                             NumAdd(@, ds[i].total_damages)]
         IN  SumDamages(ds, i + 1, MapSet(yearTotals, ds[i].year, updated))

\* yearTotals.forEach: a year enters nationalAvg when its rate is not null
RECURSIVE RatesOfTotals(_, _, _)
RatesOfTotals(yearTotals, i, nationalAvg) ==
    IF i > Len(yearTotals) THEN nationalAvg
    ELSE LET totals == yearTotals[i].v
             rate == calculateDamageRate(totals.damages, totals.transmissions)
         IN  RatesOfTotals(yearTotals, i + 1,
                           IF rate # Null
                           THEN MapSet(nationalAvg, yearTotals[i].k, rate)
                           ELSE nationalAvg)

\* a variant of calculateNationalAverages: only the damages of a key that has
\* a transmission record are summed
calculateNationalAveragesJoined(ts, ds) ==
    LET joined == SelectSeq(ds, LAMBDA d :
                      \E p \in 1..Len(ts) :
                          ts[p].state = d.state /\ ts[p].year = d.year)
    IN  RatesOfTotals(SumDamages(joined, 1, SumTransmissions(ts, 1, <<>>)),
                      1, <<>>)

calculateNationalAverages(ts, ds) ==
    RatesOfTotals(SumDamages(ds, 1, SumTransmissions(ts, 1, <<>>)), 1, <<>>)

\* a variant of SkipKey: transmissionCount < 0
SkipKeyNegative(transmissionCount) == NumLt(transmissionCount, Num(0))

\* if (transmissionCount <= 0) continue
SkipKey(transmissionCount) == NumLe(transmissionCount, Num(0))

\* a variant of FirstPassMetric: a key without a damage record gets no metric
FirstPassMetricInner(key, tMap, dMap) ==
    LET parts == Split(key, "-")
        transmissionCount ==
            IF MapHas(tMap, key) THEN MapGetOr(tMap, key, Null).transmissions
            ELSE Num(0)
        damageCount ==
            IF MapHas(dMap, key) THEN MapGetOr(dMap, key, Null).total_damages
            ELSE Num(0)
    IN  IF SkipKey(transmissionCount) \/ ~MapHas(dMap, key) THEN Null
        ELSE [state |-> parts[1],
              year |-> IF Len(parts) >= 2 THEN ParseInt(parts[2]) ELSE NaN,
              transmissions |-> transmissionCount,
              actual_damages |-> damageCount,
              damage_rate |-> calculateDamageRate(damageCount, transmissionCount),
              expected_damage_rate |-> Null,
              expected_damages |-> Null,
              residual |-> Null,
              residual_pct |-> Null]

\* the metric of the first pass for one key, or Null when the key is skipped
FirstPassMetric(key, tMap, dMap) ==
    LET parts == Split(key, "-")
        state == parts[1]
        year == IF Len(parts) >= 2 THEN ParseInt(parts[2]) ELSE NaN
        transmissionCount ==
            IF MapHas(tMap, key) THEN MapGetOr(tMap, key, Null).transmissions
            ELSE Num(0)
        damageCount ==
            IF MapHas(dMap, key) THEN MapGetOr(dMap, key, Null).total_damages
            ELSE Num(0)
    IN  IF SkipKey(transmissionCount) THEN Null
        ELSE [state |-> state,
              year |-> year,
              transmissions |-> transmissionCount,
              actual_damages |-> damageCount,
              damage_rate |-> calculateDamageRate(damageCount, transmissionCount),
              expected_damage_rate |-> Null,
              expected_damages |-> Null,
              residual |-> Null,
              residual_pct |-> Null]

\* for (const key of allKeys) ...: the objects created, the per-state arrays
\* and allMetrics, the latter two holding references (indices into hp)
RECURSIVE FirstPassFrom(_, _, _, _, _)
FirstPassFrom(keys, i, tMap, dMap, acc) ==
    IF i > Len(keys) THEN acc
    ELSE LET metric == FirstPassMetric(keys[i], tMap, dMap)
             ref == Len(acc.hp) + 1
         IN  FirstPassFrom(keys, i + 1, tMap, dMap,
                 IF metric = Null THEN acc
                 ELSE [hp |-> Append(acc.hp, metric),
                       mMap |-> MapSet(acc.mMap, metric.state,
                                       Append(MapGetOr(acc.mMap, metric.state, <<>>),
                                              ref)),
                       all |-> Append(acc.all, ref)])

FirstPass(keys, tMap, dMap) ==
    FirstPassFrom(keys, 1, tMap, dMap, [hp |-> <<>>, mMap |-> <<>>, all |-> <<>>])

\* stateMetrics.sort((a, b) => a.year - b.year), for every state
SortStateMetrics(mMap, hp) ==
    [i \in 1..Len(mMap) |->
        [k |-> mMap[i].k,
         v |-> Sort(mMap[i].v,
                   [a \in Elems(mMap[i].v), b \in Elems(mMap[i].v) |->
                       CmpNum(hp[a].year, hp[b].year)])]]

\* a variant of IsPrior: m.year <= year
IsPriorOrSame(m, year) == NumLe(m.year, year) /\ m.damage_rate # Null

\* m => m.year < year && m.damage_rate !== null
IsPrior(m, year) == NumLt(m.year, year) /\ m.damage_rate # Null

\* a variant of TakeRecent: one year more
TakeRecentFour(sorted) ==
    SubSeq(sorted, 1, IF Len(sorted) < LookbackYears + 1 THEN Len(sorted)
                      ELSE LookbackYears + 1)

\* .slice(0, 3)
TakeRecent(sorted) ==
    SubSeq(sorted, 1, IF Len(sorted) < LookbackYears THEN Len(sorted)
                      ELSE LookbackYears)

\* the damage rates of the last (at most 3) prior years, most recent first
PriorRates(state, year, mMap, hp) ==
    LET stateHistory == MapGetOr(mMap, state, <<>>)
        prior == SelectSeq(stateHistory, LAMBDA r : IsPrior(hp[r], year))
        sorted == Sort(prior, [a \in Elems(prior), b \in Elems(prior) |->
                                  CmpNum(hp[b].year, hp[a].year)])
        recent == TakeRecent(sorted)
    IN  [i \in 1..Len(recent) |-> hp[recent[i]].damage_rate]

RECURSIVE SumFrom(_, _, _)
SumFrom(rates, i, sum) ==
    IF i > Len(rates) THEN sum
    ELSE SumFrom(rates, i + 1, NumAdd(sum, rates[i]))

\* priorRates.reduce((sum, rate) => sum + rate, 0) / priorRates.length
MeanRate(rates) == NumDiv(SumFrom(rates, 1, Num(0)), Num(Len(rates)))

\* a variant of PriorYear: the year itself
PriorYearSame(year) == year

\* const priorYear = year - 1
PriorYear(year) == NumSub(year, Num(1))

\* a variant of HasStateHistory: priorRates.length >= 3
HasThreeYears(priorRates) == Len(priorRates) >= LookbackYears

\* priorRates.length > 0
HasStateHistory(priorRates) == Len(priorRates) > 0

calculateExpectedDamageRate(state, year, mMap, hp, nationalAvg) ==
    LET priorRates == PriorRates(state, year, mMap, hp)
    IN  IF HasStateHistory(priorRates) THEN MeanRate(priorRates)
        ELSE MapGetOr(nationalAvg, PriorYear(year), Null)

\* a variant of IsResidualMeaningful: > instead of >=
IsResidualMeaningfulStrict(rawResidualPct) ==
    NumGt(NumAbs(rawResidualPct), MEANINGFUL_RESIDUAL_THRESHOLD)

\* Math.abs(rawResidualPct) >= MEANINGFUL_RESIDUAL_THRESHOLD
IsResidualMeaningful(rawResidualPct) ==
    NumGe(NumAbs(rawResidualPct), MEANINGFUL_RESIDUAL_THRESHOLD)

\* a variant of WithExpected: expected_damages is assigned before the
\* rawExpectedDamages > 0 test
WithExpectedEarly(metric, expectedRate) ==
    LET m1 == [metric EXCEPT !.expected_damage_rate = expectedRate]
        rawExpectedDamages ==
            NumDiv(NumMul(metric.transmissions, expectedRate), Num(RateScale))
        rawResidual == NumSub(metric.actual_damages, rawExpectedDamages)
        rawResidualPct == NumDiv(rawResidual, rawExpectedDamages)
    IN  IF expectedRate # Null /\ NumGt(metric.transmissions, Num(0))
        THEN IF /\ NumGt(rawExpectedDamages, Num(0))
                /\ IsResidualMeaningful(rawResidualPct)
             THEN [m1 EXCEPT !.expected_damages = rawExpectedDamages,
                             !.residual = rawResidual,
                             !.residual_pct = rawResidualPct]
             ELSE [m1 EXCEPT !.expected_damages = rawExpectedDamages]
        ELSE m1

\* a variant of WithExpected without the rawExpectedDamages > 0 test
WithExpectedUnchecked(metric, expectedRate) ==
    LET m1 == [metric EXCEPT !.expected_damage_rate = expectedRate]
        rawExpectedDamages ==
            NumDiv(NumMul(metric.transmissions, expectedRate), Num(RateScale))
        rawResidual == NumSub(metric.actual_damages, rawExpectedDamages)
        rawResidualPct == NumDiv(rawResidual, rawExpectedDamages)
    IN  IF /\ expectedRate # Null
           /\ NumGt(metric.transmissions, Num(0))
           /\ IsResidualMeaningful(rawResidualPct)
        THEN [m1 EXCEPT !.expected_damages = rawExpectedDamages,
                        !.residual = rawResidual,
                        !.residual_pct = rawResidualPct]
        ELSE m1

\* the body of the second loop for one metric
WithExpected(metric, expectedRate) ==
    LET m1 == [metric EXCEPT !.expected_damage_rate = expectedRate]
        rawExpectedDamages ==
            NumDiv(NumMul(metric.transmissions, expectedRate), Num(RateScale))
        rawResidual == NumSub(metric.actual_damages, rawExpectedDamages)
        rawResidualPct == NumDiv(rawResidual, rawExpectedDamages)
    IN  IF /\ expectedRate # Null
           /\ NumGt(metric.transmissions, Num(0))
           /\ NumGt(rawExpectedDamages, Num(0))
           /\ IsResidualMeaningful(rawResidualPct)
        THEN [m1 EXCEPT !.expected_damages = rawExpectedDamages,
                        !.residual = rawResidual,
                        !.residual_pct = rawResidualPct]
        ELSE m1

\* for (const metric of allMetrics) ...: the objects are updated in place
RECURSIVE SecondPassFrom(_, _, _, _, _)
SecondPassFrom(all, i, mMap, nationalAvg, hp) ==
    IF i > Len(all) THEN hp
    ELSE LET metric == hp[all[i]]
             expectedRate ==
                 calculateExpectedDamageRate(metric.state, metric.year, mMap,
                                             hp, nationalAvg)
         IN  SecondPassFrom(all, i + 1, mMap, nationalAvg,
                 [hp EXCEPT ![all[i]] = WithExpected(metric, expectedRate)])

SecondPass(all, mMap, nationalAvg, hp) ==
    SecondPassFrom(all, 1, mMap, nationalAvg, hp)

\* a variant of CompareMetrics: the states alone
CompareStatesOnly(a, b) == LocaleCompare(a.state, b.state)

\* (a, b) => a.state !== b.state ? a.state.localeCompare(b.state)
\*                               : a.year - b.year
CompareMetrics(a, b) ==
    IF a.state # b.state THEN LocaleCompare(a.state, b.state)
    ELSE CmpNum(a.year, b.year)

\* a variant of FinalSort: allMetrics returned in the order of creation
FinalSortNone(all, hp) == all

FinalSort(all, hp) ==
    Sort(all, [a \in Elems(all), b \in Elems(all) |->
                  CompareMetrics(hp[a], hp[b])])

Deref(all, hp) == [i \in 1..Len(all) |-> hp[all[i]]]

\* transformData as a function of its two arguments
transformData(ts, ds) ==
    LET tMap == BuildRecordMap(ts, 1, <<>>)
        dMap == BuildRecordMap(ds, 1, <<>>)
        keys == AddKeys(ds, 1, AddKeys(ts, 1, <<>>))
        nationalAvg == calculateNationalAverages(ts, ds)
        first == FirstPass(keys, tMap, dMap)
        sortedMap == SortStateMetrics(first.mMap, first.hp)
        hp2 == SecondPass(first.all, sortedMap, nationalAvg, first.hp)
    IN  Deref(FinalSort(first.all, hp2), hp2)

\* a variant of YearsWithExpected: the year of every metric
RECURSIVE YearsOfAllMetrics(_, _, _)
YearsOfAllMetrics(metrics, i, years) ==
    IF i > Len(metrics) THEN years
    ELSE YearsOfAllMetrics(metrics, i + 1, SetAdd(years, metrics[i].year))

\* for (const metric of metrics) if (metric.expected_damage_rate !== null)
\*     yearsWithExpected.add(metric.year)
RECURSIVE YearsWithExpected(_, _, _)
YearsWithExpected(metrics, i, years) ==
    IF i > Len(metrics) THEN years
    ELSE YearsWithExpected(metrics, i + 1,
             IF metrics[i].expected_damage_rate # Null
             THEN SetAdd(years, metrics[i].year)
             ELSE years)

\* Array.prototype.sort() without a comparator orders by the elements'
\* strings
DefaultCompare(a, b) ==
    LET x == NumToStr(a)
        y == NumToStr(b)
    IN  IF StrLt(x, y) THEN -1 ELSE IF StrLt(y, x) THEN 1 ELSE 0

getAvailableYears(metrics) ==
    LET years == YearsWithExpected(metrics, 1, <<>>)
    IN  Sort(years, [a \in Elems(years), b \in Elems(years) |->
                        DefaultCompare(a, b)])

----------------------------------------------------------------------------
(* The inputs *)

MaxYear == 5   \* the history inputs span the years 1..MaxYear
MaxRecs == 2   \* the list inputs hold at most MaxRecs records in all

AL == <<"A", "L">>
CA == <<"C", "A">>
Regions == {AL, CA}

TransmissionRecord(state, year, count) ==
    [state |-> state, year |-> Num(year), transmissions |-> Num(count)]
DamageRecord(state, year, count) ==
    [state |-> state, year |-> Num(year), total_damages |-> Num(count)]

\* History inputs: one state has a transmission record in any of the years
\* 1..MaxYear, listed by year, and the other state has at most one; a
\* record's cell gives its volume and, when d > 0, its damage record.
HistoryCells == {[v |-> 2, d |-> 0], [v |-> 1, d |-> 3]}

\* the years of S in ascending order
YearSeq(S) == SelectSeq([y \in 1..MaxYear |-> y], LAMBDA y : y \in S)

HistoryTransmissions(state, S, cell) ==
    LET years == YearSeq(S)
    IN  [j \in 1..Len(years) |->
            TransmissionRecord(state, years[j], cell[years[j]].v)]

HistoryDamages(state, S, cell) ==
    LET years == YearSeq({y \in S : cell[y].d > 0})
    IN  [j \in 1..Len(years) |->
            DamageRecord(state, years[j], cell[years[j]].d)]

\* List inputs: at most MaxRecs records in all, in any order, a key possibly
\* more than once, volumes possibly zero or negative, damage records
\* possibly without a transmission record.
ListYears == {1, 2}
ListVolumes == {-1, 0, 2}
ListDamages == {1, 3}
ListTransmissionRecords ==
    {TransmissionRecord(s, y, c) : s \in Regions, y \in ListYears,
                                   c \in ListVolumes}
ListDamageRecords ==
    {DamageRecord(s, y, c) : s \in Regions, y \in ListYears, c \in ListDamages}

SeqsOfLen(S, n) == [1..n -> S]

InitInputs(ts, ds) ==
    /\ transmissions = ts
    /\ damages = ds
    /\ pc = "start"
    /\ transmissionMap = <<>>
    /\ damageMap = <<>>
    /\ allKeys = <<>>
    /\ nationalAvgRate = <<>>
    /\ heap = <<>>
    /\ metricsMap = <<>>
    /\ allMetrics = <<>>
    /\ result = <<>>
    /\ availableYears = <<>>
    /\ previous = <<>>
    /\ rateCall = Idle
    /\ csv = Idle
    /\ app = Idle

InitHistory ==
    \E state \in Regions, S \in SUBSET (1..MaxYear) :
        \E cell \in [S -> HistoryCells] :
            \E other \in Regions \ {state}, T \in SUBSET (1..MaxYear) :
                /\ Cardinality(T) <= 1
                /\ \E otherCell \in [T -> HistoryCells] :
                       InitInputs(
                           HistoryTransmissions(state, S, cell)
                               \o HistoryTransmissions(other, T, otherCell),
                           HistoryDamages(state, S, cell)
                               \o HistoryDamages(other, T, otherCell))

InitLists ==
    \E n \in 0..MaxRecs : \E k \in 0..(MaxRecs - n) :
        \E ts \in SeqsOfLen(ListTransmissionRecords, n) :
            \E ds \in SeqsOfLen(ListDamageRecords, k) :
                InitInputs(ts, ds)

\* Same-key inputs: every record has the same key, each list holding at most
\* MaxRecs records of it, so that a key has several volume records and
\* several event records at once.
InitSameKey ==
    \E state \in Regions, year \in ListYears :
        \E n \in 0..MaxRecs, k \in 0..MaxRecs :
            \E vs \in SeqsOfLen(ListVolumes, n), cs \in SeqsOfLen(ListDamages, k) :
                InitInputs(
                    [j \in 1..n |-> TransmissionRecord(state, year, vs[j])],
                    [j \in 1..k |-> DamageRecord(state, year, cs[j])])

Init == InitHistory \/ InitLists \/ InitSameKey

----------------------------------------------------------------------------
(* The steps of transformData, and the caller's getAvailableYears *)

BuildLookups ==
    /\ pc = "start"
    /\ transmissionMap' = BuildRecordMap(transmissions, 1, <<>>)
    /\ damageMap' = BuildRecordMap(damages, 1, <<>>)
    /\ allKeys' = AddKeys(damages, 1, AddKeys(transmissions, 1, <<>>))
    /\ pc' = "lookups"
    /\ UNCHANGED others
    /\ UNCHANGED <<transmissions, damages, nationalAvgRate, heap, metricsMap,
                   allMetrics, result, availableYears>>

NationalAverages ==
    /\ pc = "lookups"
    /\ nationalAvgRate' = calculateNationalAverages(transmissions, damages)
    /\ pc' = "national"
    /\ UNCHANGED others
    /\ UNCHANGED <<transmissions, damages, transmissionMap, damageMap, allKeys,
                   heap, metricsMap, allMetrics, result, availableYears>>

\* a variant of FirstPassStep: metricsMap and allMetrics outlive the call
\* and collect the metrics of every invocation
FirstPassStepShared ==
    /\ pc = "national"
    /\ LET first == FirstPassFrom(allKeys, 1, transmissionMap, damageMap,
                                  [hp |-> heap, mMap |-> metricsMap,
                                   all |-> allMetrics])
       IN  /\ heap' = first.hp
           /\ metricsMap' = first.mMap
           /\ allMetrics' = first.all
    /\ pc' = "first"
    /\ UNCHANGED others
    /\ UNCHANGED <<transmissions, damages, transmissionMap, damageMap, allKeys,
                   nationalAvgRate, result, availableYears>>

FirstPassStep ==
    /\ pc = "national"
    /\ LET first == FirstPass(allKeys, transmissionMap, damageMap)
       IN  /\ heap' = first.hp
           /\ metricsMap' = first.mMap
           /\ allMetrics' = first.all
    /\ pc' = "first"
    /\ UNCHANGED others
    /\ UNCHANGED <<transmissions, damages, transmissionMap, damageMap, allKeys,
                   nationalAvgRate, result, availableYears>>

SortStateMetricsStep ==
    /\ pc = "first"
    /\ metricsMap' = SortStateMetrics(metricsMap, heap)
    /\ pc' = "sorted"
    /\ UNCHANGED others
    /\ UNCHANGED <<transmissions, damages, transmissionMap, damageMap, allKeys,
                   nationalAvgRate, heap, allMetrics, result, availableYears>>

SecondPassStep ==
    /\ pc = "sorted"
    /\ heap' = SecondPass(allMetrics, metricsMap, nationalAvgRate, heap)
    /\ pc' = "second"
    /\ UNCHANGED others
    /\ UNCHANGED <<transmissions, damages, transmissionMap, damageMap, allKeys,
                   nationalAvgRate, metricsMap, allMetrics, result,
                   availableYears>>

FinalSortStep ==
    /\ pc = "second"
    /\ allMetrics' = FinalSort(allMetrics, heap)
    /\ result' = Deref(allMetrics', heap)
    /\ pc' = "returned"
    /\ UNCHANGED others
    /\ UNCHANGED <<transmissions, damages, transmissionMap, damageMap, allKeys,
                   nationalAvgRate, heap, metricsMap, availableYears>>

GetAvailableYears ==
    /\ pc = "returned"
    /\ availableYears' = getAvailableYears(result)
    /\ pc' = "years"
    /\ UNCHANGED others
    /\ UNCHANGED <<transmissions, damages, transmissionMap, damageMap, allKeys,
                   nationalAvgRate, heap, metricsMap, allMetrics, result>>

Next ==
    \/ BuildLookups
    \/ NationalAverages
    \/ FirstPassStep
    \/ SortStateMetricsStep
    \/ SecondPassStep
    \/ FinalSortStep
    \/ GetAvailableYears

Spec == Init /\ [][Next]_vars

----------------------------------------------------------------------------
(* What the properties speak of: the returned metrics and the raw inputs *)

\* transformData has returned (result is not changed afterwards)
Returned == pc = "returned"

\* the returned metrics of i's state with an earlier year
Priors(i) ==
    {j \in 1..Len(result) :
        /\ result[j].state = result[i].state
        /\ NumLt(result[j].year, result[i].year)}

\* those among them with one of the 3 largest years
RecentPriors(i) ==
    {j \in Priors(i) :
        Cardinality({k \in Priors(i) : NumLt(result[j].year, result[k].year)})
            < 3}

RECURSIVE SumOfRates(_)
SumOfRates(J) ==
    IF J = {} THEN Num(0)
    ELSE LET j == CHOOSE x \in J : TRUE
         IN  NumAdd(result[j].damage_rate, SumOfRates(J \ {j}))

\* the arithmetic mean of the damage rates of the metrics J, J # {}
MeanOfRates(J) == NumDiv(SumOfRates(J), Num(Cardinality(J)))

RECURSIVE SumOfField(_, _, _, _)
SumOfField(recs, field, year, i) ==
    IF i > Len(recs) THEN Num(0)
    ELSE NumAdd(IF recs[i].year = year THEN recs[i][field] ELSE Num(0),
                SumOfField(recs, field, year, i + 1))

\* Y - 1
YearBefore(year) == <<year[1] - 1, 1>>

\* the national baseline of a year, from the raw records: total damages
\* over total volume, per 10000; Null when the total volume is not positive
NationalVolume(year) == SumOfField(transmissions, "transmissions", year, 1)
NationalDamages(year) == SumOfField(damages, "total_damages", year, 1)
NationalBaseline(year) ==
    IF NumGt(NationalVolume(year), Num(0))
    THEN NumDiv(NumMul(NationalDamages(year), Num(10000)), NationalVolume(year))
    ELSE Null

----------------------------------------------------------------------------
(* C1: no look-ahead *)

IsLater(rec, state, year) == rec.state = state /\ NumGe(rec.year, year)

\* the records left when every record of `state` with a year >= `year` is
\* removed
PastOf(recs, state, year) ==
    SelectSeq(recs, LAMBDA r : ~IsLater(r, state, year))

\* the estimator's answer for (state, year) on the inputs without the
\* records of `state` with a year >= `year`
ExpectedFromPast(state, year) ==
    LET ts == PastOf(transmissions, state, year)
        ds == PastOf(damages, state, year)
        first == FirstPass(AddKeys(ds, 1, AddKeys(ts, 1, <<>>)),
                           BuildRecordMap(ts, 1, <<>>),
                           BuildRecordMap(ds, 1, <<>>))
    IN  calculateExpectedDamageRate(state, year,
                                    SortStateMetrics(first.mMap, first.hp),
                                    first.hp,
                                    calculateNationalAverages(ts, ds))

\* C1: the expected_damage_rate of every returned metric (R, Y) is a function
\* of the inputs without the records of R with a year >= Y: it is what the
\* estimator answers for (R, Y) once those records are removed.  Two inputs
\* that differ only in such records (their counts or their presence) have
\* the same remaining records, hence the same expected_damage_rate for
\* (R, Y) whenever both yield that metric.
C1_NoLookAhead ==
    Returned =>
        \A i \in 1..Len(result) :
            result[i].expected_damage_rate
                = ExpectedFromPast(result[i].state, result[i].year)

\* a metric with an expected rate taken from its state's earlier years, while
\* its own year has damages and its state has a metric of a later year
C1_Witness ==
    /\ Returned
    /\ \E i \in 1..Len(result) :
           /\ result[i].expected_damage_rate # Null
           /\ Priors(i) # {}
           /\ NumGt(result[i].actual_damages, Num(0))
           /\ \E j \in 1..Len(result) : i \in Priors(j)

----------------------------------------------------------------------------
(* C2: the mean of the last three prior years *)

----------------------------------------------------------------------------
(* C3: the two-tier fallback *)

----------------------------------------------------------------------------
(* C4: fewer than three years of history *)

\* the national baselines of the years of the inputs
NationalBaselines ==
    {NationalBaseline(transmissions[p].year) : p \in 1..Len(transmissions)}
        \cup {NationalBaseline(damages[p].year) : p \in 1..Len(damages)}

----------------------------------------------------------------------------
(* C5: no history, no available year *)

InAvailableYears(year) ==
    \E p \in 1..Len(availableYears) : availableYears[p] = year

InputYears ==
    {transmissions[p].year : p \in 1..Len(transmissions)}
        \cup {damages[p].year : p \in 1..Len(damages)}

\* C5 as stated: a returned metric whose state has no returned metric of an
\* earlier year has a null expected_damage_rate, and a year all of whose
\* metrics are such is not among the available years.
C5_NoHistoryNoYear ==
    pc = "years" =>
        \A i \in 1..Len(result) :
            /\ Priors(i) = {} => result[i].expected_damage_rate = Null
            /\ (\A j \in 1..Len(result) :
                    result[j].year = result[i].year => Priors(j) = {})
                   => ~InAvailableYears(result[i].year)

\* C5 as amended: a returned metric (R, Y) whose state has no returned
\* metric of an earlier year has a null expected_damage_rate when the
\* national baseline has no entry for Y - 1; every available year is the
\* year of a metric that has an earlier year of its state or a national
\* baseline of the year before; inputs of a single data year give no
\* available year.
C5_NoBaselineNoYear ==
    pc = "years" =>
        /\ \A i \in 1..Len(result) :
               (/\ Priors(i) = {}
                /\ NationalBaseline(YearBefore(result[i].year)) = Null)
                   => result[i].expected_damage_rate = Null
        /\ \A p \in 1..Len(availableYears) :
               \E i \in 1..Len(result) :
                   /\ result[i].year = availableYears[p]
                   /\ \/ Priors(i) # {}
                      \/ NationalBaseline(YearBefore(result[i].year)) # Null
        /\ Cardinality(InputYears) <= 1 => availableYears = <<>>

\* a metric without history and without baseline, whose year is not
\* available, beside a year that is
C5_Witness ==
    /\ pc = "years"
    /\ availableYears # <<>>
    /\ \E i \in 1..Len(result) :
           /\ Priors(i) = {}
           /\ result[i].expected_damage_rate = Null
           /\ ~InAvailableYears(result[i].year)

----------------------------------------------------------------------------
(* C6 - C8: the materiality gate *)

ResidualFields(m) == <<m.expected_damages, m.residual, m.residual_pct>>
AllNull(m) == \A k \in 1..3 : ResidualFields(m)[k] = Null
NoneNull(m) == \A k \in 1..3 : ResidualFields(m)[k] # Null

\* transmissions * expected_damage_rate / 10000
RawExpectedDamages(m) ==
    NumDiv(NumMul(m.transmissions, m.expected_damage_rate), Num(10000))

\* C6: in every returned metric expected_damages, residual and residual_pct
\* are all null or all non-null, and all null when expected_damage_rate is
\* null.
C6_ResidualsAtomic ==
    Returned =>
        \A i \in 1..Len(result) :
            /\ AllNull(result[i]) \/ NoneNull(result[i])
            /\ result[i].expected_damage_rate = Null => AllNull(result[i])

\* a metric with the three fields set beside one with an expected rate and
\* the three fields null
C6_Witness ==
    /\ Returned
    /\ \E i \in 1..Len(result) : NoneNull(result[i])
    /\ \E j \in 1..Len(result) :
           /\ result[j].expected_damage_rate # Null
           /\ AllNull(result[j])

\* C7: a returned metric whose actual damages are within 0.5% of its
\* expected damages (|residual_pct| < 0.005, 0 included) has null
\* expected_damages, residual and residual_pct.
C7_ImmaterialResidualNull ==
    Returned =>
        \A i \in 1..Len(result) :
            (/\ result[i].expected_damage_rate # Null
             /\ NumGt(RawExpectedDamages(result[i]), Num(0))
             /\ NumLt(NumAbs(NumDiv(NumSub(result[i].actual_damages,
                                           RawExpectedDamages(result[i])),
                                    RawExpectedDamages(result[i]))),
                      <<1, 200>>))
                => AllNull(result[i])

----------------------------------------------------------------------------
(* C9: keys without volume *)

\* the volume of the last transmission record of (state, year), 0 if none
ResolvedVolume(state, year) ==
    LET P == {p \in 1..Len(transmissions) :
                 transmissions[p].state = state /\ transmissions[p].year = year}
    IN  IF P = {} THEN Num(0)
        ELSE transmissions[CHOOSE p \in P : \A q \in P : q <= p].transmissions

HasMetric(state, year) ==
    \E i \in 1..Len(result) : result[i].state = state /\ result[i].year = year

InputKeys ==
    {<<transmissions[p].state, transmissions[p].year>> :
        p \in 1..Len(transmissions)}
        \cup {<<damages[p].state, damages[p].year>> : p \in 1..Len(damages)}

\* C9: every returned metric has transmissions > 0 and a damage_rate, and a
\* key whose resolved volume is <= 0 has no metric.
C9_PositiveVolume ==
    Returned =>
        /\ \A i \in 1..Len(result) :
               /\ NumGt(result[i].transmissions, Num(0))
               /\ result[i].damage_rate # Null
        /\ \A key \in InputKeys :
               NumLe(ResolvedVolume(key[1], key[2]), Num(0))
                   => ~HasMetric(key[1], key[2])

\* a damage record whose key has a transmission record of volume <= 0, and
\* no metric
C9_Witness ==
    /\ Returned
    /\ \E p \in 1..Len(damages), q \in 1..Len(transmissions) :
           /\ transmissions[q].state = damages[p].state
           /\ transmissions[q].year = damages[p].year
           /\ NumLe(transmissions[q].transmissions, Num(0))
           /\ ~HasMetric(damages[p].state, damages[p].year)

----------------------------------------------------------------------------
(* C10: the order of the returned metrics *)

\* C10: of two adjacent returned metrics the first has the smaller state,
\* or the same state and the smaller year.
C10_Sorted ==
    Returned =>
        \A i \in 1..(Len(result) - 1) :
            \/ StrLt(result[i].state, result[i + 1].state)
            \/ /\ result[i].state = result[i + 1].state
               /\ NumLt(result[i].year, result[i + 1].year)

\* the inputs list CA before AL, the output AL before CA
C10_Witness ==
    /\ Returned
    /\ Len(result) >= 2
    /\ Len(transmissions) >= 2
    /\ transmissions[1].state = CA
    /\ transmissions[2].state = AL
    /\ result[1].state = AL
    /\ result[2].state = CA

----------------------------------------------------------------------------
(* C11: the join of the two input lists *)

\* the positions of the event records of a key
DamagePositions(state, year) ==
    {p \in 1..Len(damages) :
        damages[p].state = state /\ damages[p].year = year}

\* the count of the last event record of a key, 0 without one
ResolvedDamages(state, year) ==
    LET P == DamagePositions(state, year)
    IN  IF P = {} THEN Num(0)
        ELSE damages[CHOOSE p \in P : \A q \in P : q <= p].total_damages

MetricsOf(state, year) ==
    {i \in 1..Len(result) : result[i].state = state /\ result[i].year = year}

\* C11: transformData returns exactly one metric for every key of either
\* list whose last volume record has a volume > 0 and none for another key;
\* the metric carries that volume and the count of the key's last event
\* record, or 0 and a damage_rate of 0 without an event record.
C11_JoinResult ==
    Returned =>
        /\ \A key \in InputKeys :
               NumGt(ResolvedVolume(key[1], key[2]), Num(0)) =>
                   /\ Cardinality(MetricsOf(key[1], key[2])) = 1
                   /\ \A i \in MetricsOf(key[1], key[2]) :
                          /\ result[i].transmissions =
                                 ResolvedVolume(key[1], key[2])
                          /\ result[i].actual_damages =
                                 ResolvedDamages(key[1], key[2])
                          /\ DamagePositions(key[1], key[2]) = {} =>
                                 /\ result[i].actual_damages = Num(0)
                                 /\ result[i].damage_rate = Num(0)
        /\ \A i \in 1..Len(result) :
               /\ <<result[i].state, result[i].year>> \in InputKeys
               /\ NumGt(ResolvedVolume(result[i].state, result[i].year), Num(0))

\* a key with two event records of different counts, the metric carrying
\* the later count, and a key with a volume and no event record
C11_Witness ==
    /\ Returned
    /\ Len(damages) = 2
    /\ damages[1].state = damages[2].state
    /\ damages[1].year = damages[2].year
    /\ damages[1].total_damages # damages[2].total_damages
    /\ \E i \in 1..Len(result) :
           /\ result[i].state = damages[2].state
           /\ result[i].year = damages[2].year
           /\ result[i].actual_damages = damages[2].total_damages

----------------------------------------------------------------------------
(* C12: the national rate of a year *)

\* the years of the records of either list
RecordYears ==
    {transmissions[p].year : p \in 1..Len(transmissions)}
        \cup {damages[p].year : p \in 1..Len(damages)}

\* C12: calculateNationalAverages has an entry for a year exactly when the
\* volumes of the year's volume records sum to more than 0, and the entry is
\* the sum of the counts of the year's event records divided by that sum of
\* volumes, times 10000, each sum taken over its own list.
C12_NationalAverages ==
    pc = "national" =>
        /\ \A year \in RecordYears :
               /\ MapHas(nationalAvgRate, year)
                      <=> NumGt(NationalVolume(year), Num(0))
               /\ MapGetOr(nationalAvgRate, year, Null) = NationalBaseline(year)
        /\ \A i \in 1..Len(nationalAvgRate) :
               nationalAvgRate[i].k \in RecordYears

\* an event record of a region without a volume record for its year, in a
\* year that has an entry, the entry counting the record
C12_Witness ==
    /\ pc = "national"
    /\ \E p \in 1..Len(damages) :
           /\ \A q \in 1..Len(transmissions) :
                  ~(/\ transmissions[q].state = damages[p].state
                    /\ transmissions[q].year = damages[p].year)
           /\ MapHas(nationalAvgRate, damages[p].year)
           /\ NumGt(MapGetOr(nationalAvgRate, damages[p].year, Null), Num(0))

----------------------------------------------------------------------------
(* C18: an expected rate that gives no expected damages *)

\* null or a finite number
NullOrFinite(x) == x = Null \/ IsFinite(x)

\* C18: a returned metric whose expected_damage_rate is non-null while
\* transmissions * expected_damage_rate / 10000 is not > 0 has
\* expected_damages, residual and residual_pct null and its expected rate
\* 0; no field of a returned metric is the result of a division by zero.
C18_NoExpectedDamages ==
    Returned =>
        \A i \in 1..Len(result) :
            /\ (/\ result[i].expected_damage_rate # Null
                /\ ~NumGt(RawExpectedDamages(result[i]), Num(0)))
                   => /\ AllNull(result[i])
                      /\ result[i].expected_damage_rate = Num(0)
            /\ NullOrFinite(result[i].damage_rate)
            /\ NullOrFinite(result[i].expected_damage_rate)
            /\ \A k \in 1..3 : NullOrFinite(ResidualFields(result[i])[k])

\* a metric with damages of its own whose expected rate is 0: the residual
\* percentage would be a division by zero
C18_Witness ==
    /\ Returned
    /\ \E i \in 1..Len(result) :
           /\ result[i].expected_damage_rate = Num(0)
           /\ NumGt(result[i].actual_damages, Num(0))
           /\ AllNull(result[i])

----------------------------------------------------------------------------
(* C20: the order of the input records *)

MaxPermRecs == 3   \* each permuted list holds at most MaxPermRecs records

\* the arrangements of n distinct keys
KeyArrangements(n) ==
    {a \in [1..n -> Regions \X ListYears] :
        \A i, j \in 1..n : a[i] = a[j] => i = j}

\* Permuted inputs: no key twice within a list, the records of each list
\* in every order.
InitPermuted ==
    \E n \in 0..MaxPermRecs, k \in 0..MaxPermRecs :
        \E a \in KeyArrangements(n), b \in KeyArrangements(k) :
            InitInputs(
                [j \in 1..n |-> TransmissionRecord(a[j][1], a[j][2], 2)],
                [j \in 1..k |-> DamageRecord(b[j][1], b[j][2], 3)])

SpecPermuted == InitPermuted /\ [][Next]_vars

\* the records of a list ordered by state, then year
ByKey(recs) ==
    Sort(recs, [a \in Elems(recs), b \in Elems(recs) |->
                   IF a.state # b.state THEN LocaleCompare(a.state, b.state)
                   ELSE CmpNum(a.year, b.year)])

NoKeyTwice(recs) ==
    \A p, q \in 1..Len(recs) :
        (recs[p].state = recs[q].state /\ recs[p].year = recs[q].year)
            => p = q

\* C20: for lists without a repeated key, transformData returns the
\* sequence it returns for the same records listed by state and year, so
\* every order of the records of either list gives the same sequence.
C20_OrderIndependent ==
    (Returned /\ NoKeyTwice(transmissions) /\ NoKeyTwice(damages))
        => result = transformData(ByKey(transmissions), ByKey(damages))

\* both lists out of key order, and a result of several metrics
C20_Witness ==
    /\ Returned
    /\ NoKeyTwice(transmissions) /\ NoKeyTwice(damages)
    /\ transmissions # ByKey(transmissions)
    /\ damages # ByKey(damages)
    /\ Len(result) >= 3
    /\ \E i \in 1..Len(result) : result[i].expected_damage_rate # Null

----------------------------------------------------------------------------
(* C14: transformData invoked twice on the same lists *)

\* transformData is called again with the same two arrays: its locals are
\* those of a new call, only what outlives a call is carried over
Reinvoke ==
    /\ pc = "years"
    /\ previous = <<>>
    /\ previous' = Append(previous, result)
    /\ pc' = "start"
    /\ UNCHANGED <<transmissions, damages, transmissionMap, damageMap, allKeys,
                   nationalAvgRate, heap, metricsMap, allMetrics, result,
                   availableYears, rateCall, csv, app>>

NextTwice == Next \/ Reinvoke

SpecTwice == Init /\ [][NextTwice]_vars

\* C14: the second invocation of transformData on the same two lists
\* returns the sequence the first one returned: same length, same order,
\* same fields.
C14_SameResultTwice ==
    (Returned /\ previous # <<>>) => result = previous[1]

\* a second invocation has returned several metrics, one with a residual
C14_Witness ==
    /\ Returned
    /\ previous # <<>>
    /\ Len(result) >= 2
    /\ \E i \in 1..Len(result) : result[i].residual # Null

----------------------------------------------------------------------------
(* C15: the years getAvailableYears returns *)

\* Inputs whose years differ in their number of digits: one state with a
\* transmission record in any of the years 8..11.
WideYears == 8..11

WideYearSeq(S) == SelectSeq([j \in 1..4 |-> 7 + j], LAMBDA y : y \in S)

InitWideYears ==
    \E S \in SUBSET WideYears :
        \E cell \in [S -> HistoryCells] :
            LET years == WideYearSeq(S)
                withDamages == WideYearSeq({y \in S : cell[y].d > 0})
            IN  InitInputs(
                    [j \in 1..Len(years) |->
                        TransmissionRecord(AL, years[j], cell[years[j]].v)],
                    [j \in 1..Len(withDamages) |->
                        DamageRecord(AL, withDamages[j],
                                     cell[withDamages[j]].d)])

SpecWideYears == InitWideYears /\ [][Next]_vars

\* C15: getAvailableYears returns, without duplicates and in ascending
\* numeric order, exactly the years of the metrics that have a non-null
\* expected_damage_rate.
C15_AscendingYears ==
    pc = "years" =>
        /\ \A i \in 1..(Len(availableYears) - 1) :
               NumLt(availableYears[i], availableYears[i + 1])
        /\ Elems(availableYears) =
               {result[i].year : i \in {j \in 1..Len(result) :
                                          result[j].expected_damage_rate # Null}}

----------------------------------------------------------------------------
(* C13: calculateDamageRate on its own *)

MaxRateCount == 5   \* the arguments range over -MaxRateCount..MaxRateCount

\* transformData is not running
NoRun ==
    /\ transmissions = <<>>
    /\ damages = <<>>
    /\ pc = "idle"
    /\ transmissionMap = <<>>
    /\ damageMap = <<>>
    /\ allKeys = <<>>
    /\ nationalAvgRate = <<>>
    /\ heap = <<>>
    /\ metricsMap = <<>>
    /\ allMetrics = <<>>
    /\ result = <<>>
    /\ availableYears = <<>>
    /\ previous = <<>>

run == <<transmissions, damages, pc, transmissionMap, damageMap, allKeys,
         nationalAvgRate, heap, metricsMap, allMetrics, result,
         availableYears, previous>>

\* the arguments of a call: small integers of either sign, and the pair of
\* the unit test
RateArguments ==
    ((-MaxRateCount)..MaxRateCount) \X ((-MaxRateCount)..MaxRateCount)
        \cup {<<750, 100000>>}

InitRate ==
    /\ NoRun
    /\ csv = Idle
    /\ app = Idle
    /\ \E args \in RateArguments :
           rateCall = [pc |-> "called", damages |-> args[1],
                       transmissions |-> args[2], result |-> Null]

CalculateDamageRate ==
    /\ rateCall.pc = "called"
    /\ rateCall' = [rateCall EXCEPT
                        !.pc = "returned",
                        !.result = calculateDamageRate(Num(rateCall.damages),
                                       Num(rateCall.transmissions))]
    /\ UNCHANGED <<run, csv, app>>

NextRate == CalculateDamageRate

SpecRate == InitRate /\ [][NextRate]_vars

\* C13: calculateDamageRate(damages, transmissions) returns null exactly
\* when transmissions <= 0, whatever the damages, and otherwise the finite
\* number damages / transmissions * 10000, which is 75 for 750 and 100000.
C13_DamageRate ==
    rateCall.pc = "returned" =>
        LET r == rateCall.result
        IN  /\ r = Null <=> rateCall.transmissions <= 0
            /\ rateCall.transmissions > 0 =>
                   /\ IsFinite(r)
                   /\ r[1] * rateCall.transmissions
                          = rateCall.damages * 10000 * r[2]
            /\ (rateCall.damages = 750 /\ rateCall.transmissions = 100000)
                   => r = Num(75)

\* a call with damages and a zero volume has returned null
C13_Witness ==
    /\ rateCall.pc = "returned"
    /\ rateCall.transmissions = 0
    /\ rateCall.damages > 0
    /\ rateCall.result = Null

----------------------------------------------------------------------------
(* C17: parseCSV *)

MaxCsvLines == 3   \* a text has at most MaxCsvLines lines after the header

\* header lines of three fields and of one field
CsvHeaderLines == {<<"s", ",", "y", ",", "t">>, <<"s">>}

\* data lines: "AL,1,2", " al ,2, 3", "CA,1", "CA,1,2,3", "" and "AL"
CsvDataLines ==
    {<<"A", "L", ",", "1", ",", "2">>,
     <<" ", "a", "l", " ", ",", "2", ",", " ", "3">>,
     <<"C", "A", ",", "1">>,
     <<"C", "A", ",", "1", ",", "2", ",", "3">>,
     <<>>,
     <<"A", "L">>}

\* the text ends with its last line or with a line feed
CsvEndings == {<<>>, <<"\n">>}

RECURSIVE JoinLines(_)
JoinLines(ls) ==
    IF Len(ls) = 0 THEN <<>>
    ELSE IF Len(ls) = 1 THEN ls[1]
    ELSE ls[1] \o <<"\n">> \o JoinLines(Tail(ls))

InitCsv ==
    /\ NoRun
    /\ rateCall = Idle
    /\ app = Idle
    /\ \E header \in CsvHeaderLines, n \in 0..MaxCsvLines, ending \in CsvEndings :
           \E ls \in SeqsOfLen(CsvDataLines, n) :
               csv = [pc |-> "called",
                      csvText |-> JoinLines(<<header>> \o ls) \o ending,
                      parser |-> "parseTransmissionRow",
                      lines |-> <<>>, headers |-> <<>>, i |-> 0,
                      records |-> <<>>]

\* const lines = ...; const headers = ...; const records = []; i = 1
ParseCsvStart ==
    /\ csv.pc = "called"
    /\ csv' = [csv EXCEPT !.pc = "loop",
                          !.lines = CsvLines(csv.csvText),
                          !.headers = CsvHeaders(CsvLines(csv.csvText)),
                          !.i = 1,
                          !.records = <<>>]
    /\ UNCHANGED <<run, rateCall, app>>

\* one turn of the loop
ParseCsvLine ==
    /\ csv.pc = "loop"
    /\ csv.i < Len(csv.lines)
    /\ csv' = [csv EXCEPT !.records = ParseLine(csv.lines, csv.headers, csv.i,
                                                csv.records, csv.parser),
                          !.i = csv.i + 1]
    /\ UNCHANGED <<run, rateCall, app>>

\* return records
ParseCsvReturn ==
    /\ csv.pc = "loop"
    /\ csv.i >= Len(csv.lines)
    /\ csv' = [csv EXCEPT !.pc = "returned"]
    /\ UNCHANGED <<run, rateCall, app>>

NextCsv == ParseCsvStart \/ ParseCsvLine \/ ParseCsvReturn

SpecCsv == InitCsv /\ [][NextCsv]_vars

\* the number of comma-separated fields of a line
FieldCount(line) ==
    1 + Cardinality({j \in 1..Len(line) : line[j] = ","})

\* the lines of the text without its surrounding white space: the header
\* and the data lines
TextLines(text) == Split(Trim(text), "\n")
HeaderLine(text) == TextLines(text)[1]
DataLines(text) == Tail(TextLines(text))

\* the data lines with as many fields as the header, in the order of the text
MatchingLines(text) ==
    SelectSeq(DataLines(text),
              LAMBDA l : FieldCount(l) = FieldCount(HeaderLine(text)))

\* C17: parseCSV returns, in the order of the text, one parsed record for
\* every line after the header that has as many comma-separated fields as
\* the header, and nothing else: a line with another number of fields is
\* skipped and the header gives no record.  The lines are those of the
\* text without its leading and trailing white space.
C17_MatchingRows ==
    csv.pc = "returned" =>
        LET kept == MatchingLines(csv.csvText)
        IN  /\ Len(csv.records) = Len(kept)
            /\ \A j \in 1..Len(kept) :
                   csv.records[j] = ParseRow(csv.parser, Split(kept[j], ","))

\* a line of four fields between two lines of three under a header of
\* three: two records, those of the first and the third line
C17_Witness ==
    /\ csv.pc = "returned"
    /\ Len(DataLines(csv.csvText)) = 3
    /\ FieldCount(HeaderLine(csv.csvText)) = 3
    /\ FieldCount(DataLines(csv.csvText)[1]) = 3
    /\ FieldCount(DataLines(csv.csvText)[2]) = 4
    /\ FieldCount(DataLines(csv.csvText)[3]) = 3
    /\ Len(csv.records) = 2
    /\ csv.records[1].state = AL /\ csv.records[1].year = Num(1)
    /\ csv.records[2].state = AL /\ csv.records[2].year = Num(2)
    /\ csv.records[2].transmissions = Num(3)

----------------------------------------------------------------------------
(* loader.ts and App.tsx: the load on mount *)

\* what the two files may hold: a header alone, a header and rows, or a
\* header and rows of which one is short
CsvHeader == <<"s", ",", "y", ",", "t">>
TransmissionTexts ==
    {CsvHeader,
     JoinLines(<<CsvHeader, <<"A", "L", ",", "1", ",", "2">>,
                 <<"A", "L", ",", "2", ",", "2">>>>) \o <<"\n">>,
     JoinLines(<<CsvHeader, <<"C", "A", ",", "1">>,
                 <<"a", "l", ",", "1", ",", "2">>>>)}
DamageTexts ==
    {CsvHeader,
     JoinLines(<<CsvHeader, <<"A", "L", ",", "1", ",", "3">>>>) \o <<"\n">>,
     JoinLines(<<CsvHeader, <<"A", "L", ",", "2">>,
                 <<"A", "L", ",", "2", ",", "3">>>>)}

Loads == {"transmissions", "damages"}

\* parseCSV(text, parseTransmissionRow) and parseCSV(text, parseDamageRow)
\* of the files, transformData of the parsed records and getAvailableYears
\* of its result, evaluated once for all the files
ParsedTransmissions ==
    {parseCSV(text, "parseTransmissionRow") : text \in TransmissionTexts}
ParsedDamages ==
    {parseCSV(text, "parseDamageRow") : text \in DamageTexts}
ParsedOf(x) ==
    IF x = "transmissions" THEN ParsedTransmissions ELSE ParsedDamages
Transformed ==
    {[transmissions |-> ts, damages |-> ds, data |-> transformData(ts, ds),
      years |-> getAvailableYears(transformData(ts, ds))] :
        ts \in ParsedTransmissions, ds \in ParsedDamages}
TransformOf(ts, ds) ==
    CHOOSE e \in Transformed : e.transmissions = ts /\ e.damages = ds

\* loadTransmissions or loadDamages before it is called
NotCalled == [pc |-> "idle", records |-> <<>>, error |-> Null]

\* App as first rendered: the useState initial values; the effect has not
\* run yet
InitApp ==
    /\ NoRun
    /\ rateCall = Idle
    /\ csv = Idle
    /\ app = [pc |-> "mounted",
              loads |-> 0,
              transmissions |-> NotCalled,
              damages |-> NotCalled,
              promise |-> "none",
              data |-> <<>>,
              reason |-> Null,
              transformCalls |-> 0,
              metrics |-> <<>>,
              availableYears |-> <<>>,
              selectedYear |-> Num(2023),
              loading |-> TRUE,
              error |-> Null]

\* useEffect(() => { loadAndTransformData()... }, []): both loads are
\* called and both fetches are in flight
StartLoad ==
    /\ app.pc = "mounted"
    /\ app' = [app EXCEPT !.pc = "loading",
                          !.loads = @ + 1,
                          !.transmissions.pc = "fetching",
                          !.damages.pc = "fetching",
                          !.promise = "pending"]
    /\ UNCHANGED <<run, rateCall, csv>>

\* await fetch(...) of load x fulfils
FetchResolve(x) ==
    /\ app[x].pc = "fetching"
    /\ app' = [app EXCEPT ![x].pc = "reading"]
    /\ UNCHANGED <<run, rateCall, csv>>

\* await fetch(...) of load x rejects: the load rejects
FetchReject(x) ==
    /\ app[x].pc = "fetching"
    /\ app' = [app EXCEPT ![x].pc = "failed",
                          ![x].error = <<"Failed to fetch">>]
    /\ UNCHANGED <<run, rateCall, csv>>

\* await response.text() of load x fulfils: return parseCSV(text, parser)
TextResolve(x) ==
    /\ app[x].pc = "reading"
    /\ \E records \in ParsedOf(x) :
           app' = [app EXCEPT ![x].pc = "parsed", ![x].records = records]
    /\ UNCHANGED <<run, rateCall, csv>>

\* await response.text() of load x rejects: the load rejects
TextReject(x) ==
    /\ app[x].pc = "reading"
    /\ app' = [app EXCEPT ![x].pc = "failed",
                          ![x].error = <<"Failed to read the body">>]
    /\ UNCHANGED <<run, rateCall, csv>>

\* await Promise.all([...]) rejects with the reason of a rejected load, and
\* so does the promise of loadAndTransformData
PromiseAllReject(x) ==
    /\ app.promise = "pending"
    /\ app[x].pc = "failed"
    /\ app' = [app EXCEPT !.promise = "rejected", !.reason = app[x].error]
    /\ UNCHANGED <<run, rateCall, csv>>

\* a variant of RunTransform: it runs as soon as one load has fulfilled
RunTransformEarly ==
    /\ app.promise = "pending"
    /\ app.transmissions.pc = "parsed" \/ app.damages.pc = "parsed"
    /\ app' = [app EXCEPT
                   !.promise = "resolved",
                   !.transformCalls = @ + 1,
                   !.data = TransformOf(app.transmissions.records,
                                        app.damages.records).data]
    /\ UNCHANGED <<run, rateCall, csv>>

\* await Promise.all([...]) fulfils: return transformData(transmissions,
\* damages)
RunTransform ==
    /\ app.promise = "pending"
    /\ app.transmissions.pc = "parsed"
    /\ app.damages.pc = "parsed"
    /\ app' = [app EXCEPT
                   !.promise = "resolved",
                   !.transformCalls = @ + 1,
                   !.data = TransformOf(app.transmissions.records,
                                        app.damages.records).data]
    /\ UNCHANGED <<run, rateCall, csv>>

\* .then((data) => { setMetrics(data); ...; setLoading(false); })
ThenCallback ==
    /\ app.pc = "loading"
    /\ app.promise = "resolved"
    /\ LET years == TransformOf(app.transmissions.records,
                                app.damages.records).years
       IN  app' = [app EXCEPT
                      !.pc = "done",
                      !.metrics = app.data,
                      !.availableYears = years,
                      !.selectedYear =
                          IF Len(years) > 0 THEN years[Len(years)] ELSE @,
                      !.loading = FALSE]
    /\ UNCHANGED <<run, rateCall, csv>>

\* a variant of CatchCallback that leaves loading alone
CatchCallbackStuck ==
    /\ app.pc = "loading"
    /\ app.promise = "rejected"
    /\ app' = [app EXCEPT
                   !.pc = "done",
                   !.error = <<"Failed to load data: ">> \o app.reason]
    /\ UNCHANGED <<run, rateCall, csv>>

\* .catch((err) => { setError(`Failed to load data: ${err.message}`);
\*                   setLoading(false); })
CatchCallback ==
    /\ app.pc = "loading"
    /\ app.promise = "rejected"
    /\ app' = [app EXCEPT
                   !.pc = "done",
                   !.error = <<"Failed to load data: ">> \o app.reason,
                   !.loading = FALSE]
    /\ UNCHANGED <<run, rateCall, csv>>

NextApp ==
    \/ StartLoad
    \/ \E x \in Loads : FetchResolve(x)
    \/ \E x \in Loads : FetchReject(x)
    \/ \E x \in Loads : TextResolve(x)
    \/ \E x \in Loads : TextReject(x)
    \/ \E x \in Loads : PromiseAllReject(x)
    \/ RunTransform
    \/ ThenCallback
    \/ CatchCallback

SpecApp == InitApp /\ [][NextApp]_vars

\* every fetch and every body read settles, and the callbacks of settled
\* promises are run
SpecAppFair == SpecApp /\ WF_vars(NextApp)

----------------------------------------------------------------------------
(* C16: transformData after both loads *)

SomeLoadFailed ==
    app.transmissions.pc = "failed" \/ app.damages.pc = "failed"

\* transformData has run only with both loads fulfilled, and at most once;
\* with a rejected load it has not run and the promise is not fulfilled
TransformAfterBoth ==
    /\ app.transformCalls > 0 =>
           /\ app.transformCalls = 1
           /\ app.transmissions.pc = "parsed"
           /\ app.damages.pc = "parsed"
           /\ app.data = transformData(app.transmissions.records,
                                       app.damages.records)
    /\ SomeLoadFailed =>
           /\ app.transformCalls = 0
           /\ app.promise # "resolved"

\* C16: in loadAndTransformData transformData is invoked only after
\* loadTransmissions and loadDamages have both fulfilled, in whichever order
\* they complete; when either of them rejects transformData is never invoked
\* and the returned promise rejects.
C16_TransformAfterBothLoads ==
    /\ []TransformAfterBoth
    /\ SomeLoadFailed ~> (app.promise = "rejected")

\* the damages load fulfilled first, the transmissions load failed after
\* it, and the promise is rejected without a call of transformData
C16_Witness ==
    /\ app.damages.pc = "parsed"
    /\ app.damages.records # <<>>
    /\ app.transmissions.pc = "failed"
    /\ app.promise = "rejected"
    /\ app.transformCalls = 0

----------------------------------------------------------------------------
(* C19: the load state machine of App *)

LoadFailed == app.error # Null

\* the states of App: first render, after a fulfilled load, after a
\* rejected load
AppStates ==
    /\ app.loads <= 1
    /\ app.pc = "mounted" =>
           app.loading /\ app.error = Null /\ app.metrics = <<>>
    /\ app.pc = "loading" =>
           app.loading /\ app.error = Null /\ app.loads = 1
    /\ (app.pc = "done" /\ app.promise = "resolved") =>
           /\ ~app.loading
           /\ app.error = Null
           /\ app.metrics = app.data
    /\ (app.pc = "done" /\ app.promise = "rejected") =>
           /\ ~app.loading
           /\ SubSeq(app.error, 1, 1) = <<"Failed to load data: ">>
           /\ app.metrics = <<>>
    /\ LoadFailed <=> (app.pc = "done" /\ app.promise = "rejected")

\* C19: App starts with loading true and error null and starts the load
\* once; loading eventually becomes false and never true again; after a
\* fulfilled load metrics is set and error is null, after a rejected load
\* error is a 'Failed to load data' message and metrics is empty, so error
\* tells a failed load from a loaded empty dataset.
C19_LoadStateMachine ==
    /\ []AppStates
    /\ [][~app.loading => ~app'.loading]_vars
    /\ <>(~app.loading)

\* a fulfilled load of an empty dataset: not loading, no error, no metrics
C19_Witness ==
    /\ app.pc = "done"
    /\ ~app.loading
    /\ app.promise = "resolved"
    /\ app.transmissions.records = <<>>
    /\ app.metrics = <<>>
    /\ app.error = Null

----------------------------------------------------------------------------
(* C21: the composite key *)

\* Inputs whose region codes may hold the delimiter and whose years may be
\* negative: at most MaxRecs records in all, in any order.
DelimitedRegions == {AL, <<"A">>, <<"A", "-">>}
DelimitedYears == {-1, 1}
DelimitedTransmissionRecords ==
    {TransmissionRecord(s, y, 2) : s \in DelimitedRegions, y \in DelimitedYears}
DelimitedDamageRecords ==
    {DamageRecord(s, y, 3) : s \in DelimitedRegions, y \in DelimitedYears}

InitDelimited ==
    \E n \in 0..MaxRecs : \E k \in 0..(MaxRecs - n) :
        \E ts \in SeqsOfLen(DelimitedTransmissionRecords, n) :
            \E ds \in SeqsOfLen(DelimitedDamageRecords, k) :
                InitInputs(ts, ds)

SpecDelimited == InitDelimited /\ [][Next]_vars

\* the (state, year) pairs of the records of both lists
RecordPairs ==
    {<<transmissions[p].state, transmissions[p].year>> :
        p \in 1..Len(transmissions)}
        \cup {<<damages[p].state, damages[p].year>> : p \in 1..Len(damages)}

\* C21: every returned metric carries the state and the year of an input
\* volume record with transmissions > 0, and two input records with
\* different (state, year) pairs have different keys state + '-' + year,
\* whatever the region string and the integer year.
C21_KeyRoundTrip ==
    Returned =>
        /\ \A i \in 1..Len(result) :
               \E p \in 1..Len(transmissions) :
                   /\ transmissions[p].state = result[i].state
                   /\ transmissions[p].year = result[i].year
                   /\ NumGt(transmissions[p].transmissions, Num(0))
        /\ \A a, b \in RecordPairs :
               a # b => KeyOf(a[1], a[2]) # KeyOf(b[1], b[2])

====
